---- MODULE Spec2Model ----
(***************************************************************************)
(* Dynamic K-th smallest index of                                          *)
(* src/k-th-smallest-element-in-a-dynamically-updating-range/solution.py:  *)
(* a segment tree over positions whose nodes each own a Fenwick tree over  *)
(* compressed ranks, wrapped by DynamicKthSmallest.                        *)
(*                                                                         *)
(* Python lists are TLA+ sequences: Python index i is TLA+ index i + 1.    *)
(* A Python reference that may be None is a sequence of length <= 1.       *)
(***************************************************************************)
EXTENDS Integers, Sequences, FiniteSets, TLC

\* ---------------------------------------------------------------- bounds
MaxN == 2
NumValues == 3

\* The comparable element type: NumValues integers that are not ranks.
Values == {10 * i : i \in 1..NumValues}

\* ---------------------------------------------------------------- Python helpers
None == <<>>
Some(x) == <<x>>

\* list[i] with Python's negative indexing
PyGet(list, i) == IF i >= 0 THEN list[i + 1] ELSE list[Len(list) + i + 1]

\* list[i] = x
PySet(list, i, x) == [list EXCEPT ![i + 1] = x]

SetMin(S) == CHOOSE m \in S : \A x \in S : m <= x

\* sorted(list(S)) for a set S of integers
RECURSIVE sorted(_)
sorted(S) ==
    IF S = {} THEN <<>>
    ELSE LET m == SetMin(S) IN <<m>> \o sorted(S \ {m})

\* set(list)
PySetOf(list) == {list[i] : i \in 1..Len(list)}

\* variant of the rank assignment that numbers the values from 1
EnumerateDict_from_one(list) ==
    [val \in PySetOf(list) |-> CHOOSE i \in 1..Len(list) : list[i] = val]

\* {val: i for i, val in enumerate(list)}
EnumerateDict(list) ==
    [val \in PySetOf(list) |-> (CHOOSE i \in 1..Len(list) : list[i] = val) - 1]

\* variant of the step width that is always 1
LowBit_always_one(i) == 1

\* i & (-i) for i > 0: the lowest set bit of i
RECURSIVE LowBit(_)
LowBit(i) == IF i % 2 = 1 THEN 1 ELSE 2 * LowBit(i \div 2)

\* ---------------------------------------------------------------- FenwickTree
\* FenwickTree.__init__: size and a 1-indexed array of size + 1 cells
FenwickTree(size) == [size |-> size, tree |-> [i \in 0..size |-> 0]]

\* the while loop of FenwickTree.update, from index_1_based
RECURSIVE FenwickTree_update_loop(_, _, _)
FenwickTree_update_loop(ft, index_1_based, delta) ==
    IF index_1_based <= ft.size
    THEN FenwickTree_update_loop([ft EXCEPT !.tree[index_1_based] = @ + delta],
                                 index_1_based + LowBit(index_1_based), delta)
    ELSE ft

\* variant of FenwickTree.update that adjusts one cell and does not walk on
FenwickTree_update_no_carry(ft, index_0_based, delta) ==
    IF index_0_based + 1 <= ft.size
    THEN [ft EXCEPT !.tree[index_0_based + 1] = @ + delta]
    ELSE ft

\* FenwickTree.update
FenwickTree_update(ft, index_0_based, delta) ==
    FenwickTree_update_loop(ft, index_0_based + 1, delta)

\* the while loop of FenwickTree.query, from index_1_based with sum s
RECURSIVE FenwickTree_query_loop(_, _, _)
FenwickTree_query_loop(ft, index_1_based, s) ==
    IF index_1_based > 0
    THEN FenwickTree_query_loop(ft, index_1_based - LowBit(index_1_based),
                                s + ft.tree[index_1_based])
    ELSE s

\* variant of FenwickTree.query that omits the conversion to 1-based
FenwickTree_query_off_by_one(ft, index_0_based) ==
    FenwickTree_query_loop(ft, index_0_based, 0)

\* FenwickTree.query
FenwickTree_query(ft, index_0_based) ==
    FenwickTree_query_loop(ft, index_0_based + 1, 0)

\* ---------------------------------------------------------------- SegmentTree
\* variant of _update_recursive that adjusts the counter of a leaf twice
RECURSIVE _update_recursive_twice_at_leaf(_, _, _, _, _, _, _)
_update_recursive_twice_at_leaf(tree, node_idx, start_idx, end_idx, target_idx, rank, delta) ==
    LET t1 == [tree EXCEPT ![node_idx] = FenwickTree_update(@, rank, delta)]
    IN  IF start_idx = end_idx
        THEN [t1 EXCEPT ![node_idx] = FenwickTree_update(@, rank, delta)]
        ELSE LET mid_idx == (start_idx + end_idx) \div 2
             IN  IF target_idx <= mid_idx
                 THEN _update_recursive_twice_at_leaf(t1, 2 * node_idx, start_idx, mid_idx,
                                                      target_idx, rank, delta)
                 ELSE _update_recursive_twice_at_leaf(t1, 2 * node_idx + 1, mid_idx + 1,
                                                      end_idx, target_idx, rank, delta)

\* variant of _update_recursive that compares target_idx < mid_idx
RECURSIVE _update_recursive_wrong_child(_, _, _, _, _, _, _)
_update_recursive_wrong_child(tree, node_idx, start_idx, end_idx, target_idx, rank, delta) ==
    LET t1 == [tree EXCEPT ![node_idx] = FenwickTree_update(@, rank, delta)]
        mid_idx == (start_idx + end_idx) \div 2
    IN  IF start_idx = end_idx THEN t1
        ELSE IF target_idx < mid_idx
             THEN _update_recursive_wrong_child(t1, 2 * node_idx, start_idx, mid_idx,
                                                target_idx, rank, delta)
             ELSE _update_recursive_wrong_child(t1, 2 * node_idx + 1, mid_idx + 1, end_idx,
                                                target_idx, rank, delta)

\* SegmentTree._update_recursive on the node array `tree` (Python list of
\* 4n FenwickTree objects, indices 0..4n-1)
RECURSIVE _update_recursive(_, _, _, _, _, _, _)
_update_recursive(tree, node_idx, start_idx, end_idx, target_idx, rank, delta) ==
    LET t1 == [tree EXCEPT ![node_idx] = FenwickTree_update(@, rank, delta)]
        mid_idx == (start_idx + end_idx) \div 2
    IN  IF start_idx = end_idx THEN t1
        ELSE IF target_idx <= mid_idx
             THEN _update_recursive(t1, 2 * node_idx, start_idx, mid_idx,
                                    target_idx, rank, delta)
             ELSE _update_recursive(t1, 2 * node_idx + 1, mid_idx + 1, end_idx,
                                    target_idx, rank, delta)

\* the build loop of SegmentTree.__init__: for i in range(self.n), from i
RECURSIVE SegmentTree_build_loop(_, _, _, _, _)
SegmentTree_build_loop(tree, nn, initial_nums, val_to_rank_map, i) ==
    IF i < nn
    THEN SegmentTree_build_loop(
             _update_recursive(tree, 1, 0, nn - 1, i,
                               val_to_rank_map[PyGet(initial_nums, i)], 1),
             nn, initial_nums, val_to_rank_map, i + 1)
    ELSE tree

\* variant of SegmentTree.__init__ that allocates 2 * n counters
SegmentTree_allocates_2n(initial_nums, val_to_rank_map, MM) ==
    LET nn == Len(initial_nums)
        empty == [i \in 0..(2 * nn - 1) |-> FenwickTree(MM)]
    IN  [n |-> nn, M |-> MM,
         tree |-> SegmentTree_build_loop(empty, nn, initial_nums, val_to_rank_map, 0)]

\* variant of SegmentTree.__init__ whose build loop starts at position 1
SegmentTree_build_from_one(initial_nums, val_to_rank_map, MM) ==
    LET nn == Len(initial_nums)
        empty == [i \in 0..(4 * nn - 1) |-> FenwickTree(MM)]
    IN  [n |-> nn, M |-> MM,
         tree |-> SegmentTree_build_loop(empty, nn, initial_nums, val_to_rank_map, 1)]

\* SegmentTree.__init__. The object's val_to_rank and current_nums attributes
\* are aliases of the wrapper's and are read nowhere after the build loop.
SegmentTree(initial_nums, val_to_rank_map, MM) ==
    LET nn == Len(initial_nums)
        empty == [i \in 0..(4 * nn - 1) |-> FenwickTree(MM)]
    IN  [n |-> nn, M |-> MM,
         tree |-> SegmentTree_build_loop(empty, nn, initial_nums, val_to_rank_map, 0)]

\* variant of SegmentTree.update that adds the new rank without removing the old
SegmentTree_update_no_removal(st, index, old_rank, new_rank) ==
    [st EXCEPT !.tree = _update_recursive(st.tree, 1, 0, st.n - 1, index, new_rank, 1)]

\* SegmentTree.update
SegmentTree_update(st, index, old_rank, new_rank) ==
    LET t1 == _update_recursive(st.tree, 1, 0, st.n - 1, index, old_rank, -1)
        t2 == _update_recursive(t1, 1, 0, st.n - 1, index, new_rank, 1)
    IN  [st EXCEPT !.tree = t2]

\* variant of _query_count_le that takes a segment starting at query_R for
\* one that lies outside the range
RECURSIVE _query_count_le_drops_right_end(_, _, _, _, _, _, _)
_query_count_le_drops_right_end(st, node_idx, seg_start, seg_end, query_L, query_R, target_rank) ==
    IF query_R <= seg_start \/ query_L > seg_end THEN 0
    ELSE IF query_L <= seg_start /\ seg_end <= query_R
         THEN FenwickTree_query(st.tree[node_idx], target_rank)
         ELSE LET mid_idx == (seg_start + seg_end) \div 2
              IN  _query_count_le_drops_right_end(st, 2 * node_idx, seg_start, mid_idx,
                                                  query_L, query_R, target_rank)
                  + _query_count_le_drops_right_end(st, 2 * node_idx + 1, mid_idx + 1,
                                                    seg_end, query_L, query_R, target_rank)

\* SegmentTree._query_count_le
RECURSIVE _query_count_le(_, _, _, _, _, _, _)
_query_count_le(st, node_idx, seg_start, seg_end, query_L, query_R, target_rank) ==
    IF query_R < seg_start \/ query_L > seg_end THEN 0
    ELSE IF query_L <= seg_start /\ seg_end <= query_R
         THEN FenwickTree_query(st.tree[node_idx], target_rank)
         ELSE LET mid_idx == (seg_start + seg_end) \div 2
                  left_count == _query_count_le(st, 2 * node_idx, seg_start, mid_idx,
                                                query_L, query_R, target_rank)
                  right_count == _query_count_le(st, 2 * node_idx + 1, mid_idx + 1,
                                                 seg_end, query_L, query_R, target_rank)
              IN  left_count + right_count

\* variant of the binary search that accepts a rank only if count > K
RECURSIVE query_kth_smallest_loop_strict(_, _, _, _, _, _, _)
query_kth_smallest_loop_strict(st, query_L, query_R, K, low_rank, high_rank, ans_rank) ==
    IF low_rank <= high_rank
    THEN LET mid_rank == low_rank + (high_rank - low_rank) \div 2
             count == _query_count_le(st, 1, 0, st.n - 1, query_L, query_R, mid_rank)
         IN  IF count > K
             THEN query_kth_smallest_loop_strict(st, query_L, query_R, K,
                                                 low_rank, mid_rank - 1, mid_rank)
             ELSE query_kth_smallest_loop_strict(st, query_L, query_R, K,
                                                 mid_rank + 1, high_rank, ans_rank)
    ELSE ans_rank

\* the binary search loop of SegmentTree.query_kth_smallest
RECURSIVE query_kth_smallest_loop(_, _, _, _, _, _, _)
query_kth_smallest_loop(st, query_L, query_R, K, low_rank, high_rank, ans_rank) ==
    IF low_rank <= high_rank
    THEN LET mid_rank == low_rank + (high_rank - low_rank) \div 2
             count == _query_count_le(st, 1, 0, st.n - 1, query_L, query_R, mid_rank)
         IN  IF count >= K
             THEN query_kth_smallest_loop(st, query_L, query_R, K,
                                          low_rank, mid_rank - 1, mid_rank)
             ELSE query_kth_smallest_loop(st, query_L, query_R, K,
                                          mid_rank + 1, high_rank, ans_rank)
    ELSE ans_rank

\* SegmentTree.query_kth_smallest
query_kth_smallest(st, query_L, query_R, K, rank_to_val_map) ==
    PyGet(rank_to_val_map,
          query_kth_smallest_loop(st, query_L, query_R, K, 0, st.M - 1, -1))

\* ---------------------------------------------------------------- DynamicKthSmallest
VARIABLES n, _initial_elements, current_nums, _all_possible_values,
          val_to_rank, rank_to_val, M, seg_tree, last

\* The repository's other objects that are modelled: an LRUCache (of either
\* implementation) and a FenwickTree used on its own. `last` is also the
\* outcome of their calls.
VARIABLES impl, capacity, cache, nodes, lru_history,
          bit, bit_history

\* A call of DynamicKthSmallest.update that is in progress, for the
\* specification that runs update statement by statement: `frame` is the
\* call's position and local variables, `at_call` records current_nums and
\* the tree as they were when the call was made.
VARIABLES frame, at_call

vars == <<n, _initial_elements, current_nums, _all_possible_values,
          val_to_rank, rank_to_val, M, seg_tree, last,
          impl, capacity, cache, nodes, lru_history, bit, bit_history,
          frame, at_call>>

\* the update call in progress (and the record of the state it started from)
step_state == <<frame, at_call>>

\* the frame when no update is in progress
IdleFrame ==
    [pc |-> "idle", index |-> 0, new_value |-> 0, old_rank |-> 0, new_rank |-> 0,
     delta |-> 0, node_idx |-> 0, start_idx |-> 0, end_idx |-> 0]

\* no update is in progress
NoUpdateInProgress == frame = IdleFrame /\ at_call = <<>>

\* the LRUCache object (and the record of how its keys were used)
lru_state == <<impl, capacity, cache, nodes, lru_history>>

\* the free-standing FenwickTree object (and the record of its updates)
bit_state == <<bit, bit_history>>

\* no LRUCache has been constructed
NoLRUCache ==
    /\ impl = "none" /\ capacity = 0 /\ cache = <<>> /\ nodes = <<>>
    /\ lru_history = <<>>

\* no free-standing FenwickTree has been constructed
NoFenwickTree == bit = <<>> /\ bit_history = <<>>

\* everything the object owns (all but the record of the last call)
index_state == <<n, _initial_elements, current_nums, _all_possible_values,
                 val_to_rank, rank_to_val, M, seg_tree>>

\* outcome of a call: what it returned or which exception it raised
Return(name, value) == [op |-> name, kind |-> "ok", ret |-> value]
Raise(name, exc) == [op |-> name, kind |-> exc, ret |-> None]

\* DynamicKthSmallest.__init__(initial_nums) for every initial_nums of
\* length 0..MaxN over Values
Init ==
    \E len \in 0..MaxN : \E initial_nums \in [1..len -> Values] :
        /\ n = Len(initial_nums)
        /\ _initial_elements = initial_nums
        /\ current_nums = initial_nums
        /\ _all_possible_values = PySetOf(initial_nums)
        /\ val_to_rank = <<>>
        /\ rank_to_val = <<>>
        /\ M = 0
        /\ seg_tree = None
        /\ last = Return("__init__", None)

\* variant of add_value_candidate that keeps only the value registered last
add_value_candidate_replaces(val) ==
    /\ _all_possible_values' = {val}
    /\ last' = Return("add_value_candidate", None)
    /\ UNCHANGED <<n, _initial_elements, current_nums, val_to_rank, rank_to_val,
                   M, seg_tree>>

\* DynamicKthSmallest.add_value_candidate
add_value_candidate(val) ==
    /\ _all_possible_values' = _all_possible_values \cup {val}
    /\ last' = Return("add_value_candidate", None)
    /\ UNCHANGED <<n, _initial_elements, current_nums, val_to_rank, rank_to_val,
                   M, seg_tree>>

\* variant of finalize_compression_and_build that builds a tree object even
\* for an empty sequence
finalize_builds_tree_when_empty ==
    IF _all_possible_values = {}
    THEN IF n > 0
         THEN /\ last' = Raise("finalize_compression_and_build", "ValueError")
              /\ UNCHANGED index_state
         ELSE /\ seg_tree' = None
              /\ last' = Return("finalize_compression_and_build", None)
              /\ UNCHANGED <<n, _initial_elements, current_nums,
                             _all_possible_values, val_to_rank, rank_to_val, M>>
    ELSE LET sorted_distinct_values == sorted(_all_possible_values)
             new_val_to_rank == EnumerateDict(sorted_distinct_values)
             new_M == Len(sorted_distinct_values)
         IN  /\ rank_to_val' = sorted_distinct_values
             /\ val_to_rank' = new_val_to_rank
             /\ M' = new_M
             /\ seg_tree' = Some(SegmentTree(_initial_elements, new_val_to_rank, new_M))
             /\ last' = Return("finalize_compression_and_build", None)
             /\ UNCHANGED <<n, _initial_elements, current_nums, _all_possible_values>>

\* DynamicKthSmallest.finalize_compression_and_build
finalize_compression_and_build ==
    IF _all_possible_values = {}
    THEN IF n > 0
         THEN /\ last' = Raise("finalize_compression_and_build", "ValueError")
              /\ UNCHANGED index_state
         ELSE /\ seg_tree' = None
              /\ last' = Return("finalize_compression_and_build", None)
              /\ UNCHANGED <<n, _initial_elements, current_nums,
                             _all_possible_values, val_to_rank, rank_to_val, M>>
    ELSE LET sorted_distinct_values == sorted(_all_possible_values)
             new_val_to_rank == EnumerateDict(sorted_distinct_values)
             new_M == Len(sorted_distinct_values)
         IN  /\ rank_to_val' = sorted_distinct_values
             /\ val_to_rank' = new_val_to_rank
             /\ M' = new_M
             /\ seg_tree' = IF n = 0 THEN None
                            ELSE Some(SegmentTree(_initial_elements, new_val_to_rank, new_M))
             /\ last' = Return("finalize_compression_and_build", None)
             /\ UNCHANGED <<n, _initial_elements, current_nums, _all_possible_values>>

\* variant of update that writes current_nums before it looks the value up
update_writes_before_check(index, new_value) ==
    IF seg_tree = None
    THEN /\ last' = IF n = 0 THEN Return("update", None) ELSE Raise("update", "RuntimeError")
         /\ UNCHANGED index_state
    ELSE IF ~(0 <= index /\ index < n)
    THEN /\ last' = Raise("update", "IndexError")
         /\ UNCHANGED index_state
    ELSE IF new_value \notin DOMAIN val_to_rank
    THEN /\ last' = Raise("update", "ValueError")
         /\ current_nums' = PySet(current_nums, index, new_value)
         /\ UNCHANGED <<n, _initial_elements, _all_possible_values, val_to_rank,
                        rank_to_val, M, seg_tree>>
    ELSE LET old_value == PyGet(current_nums, index)
             old_rank == val_to_rank[old_value]
             new_rank == val_to_rank[new_value]
         IN  /\ current_nums' = PySet(current_nums, index, new_value)
             /\ seg_tree' = Some(SegmentTree_update(seg_tree[1], index, old_rank, new_rank))
             /\ last' = Return("update", None)
             /\ UNCHANGED <<n, _initial_elements, _all_possible_values, val_to_rank,
                            rank_to_val, M>>

\* variant of update that looks the value up before it checks the index
update_checks_value_first(index, new_value) ==
    IF seg_tree = None
    THEN /\ last' = IF n = 0 THEN Return("update", None) ELSE Raise("update", "RuntimeError")
         /\ UNCHANGED index_state
    ELSE IF new_value \notin DOMAIN val_to_rank
    THEN /\ last' = Raise("update", "ValueError")
         /\ UNCHANGED index_state
    ELSE IF ~(0 <= index /\ index < n)
    THEN /\ last' = Raise("update", "IndexError")
         /\ UNCHANGED index_state
    ELSE LET old_value == PyGet(current_nums, index)
             old_rank == val_to_rank[old_value]
             new_rank == val_to_rank[new_value]
         IN  /\ current_nums' = PySet(current_nums, index, new_value)
             /\ seg_tree' = Some(SegmentTree_update(seg_tree[1], index, old_rank, new_rank))
             /\ last' = Return("update", None)
             /\ UNCHANGED <<n, _initial_elements, _all_possible_values, val_to_rank,
                            rank_to_val, M>>

\* variant of update that returns silently whenever no tree has been built
update_returns_when_unbuilt(index, new_value) ==
    IF seg_tree = None
    THEN /\ last' = Return("update", None)
         /\ UNCHANGED index_state
    ELSE IF ~(0 <= index /\ index < n)
    THEN /\ last' = Raise("update", "IndexError")
         /\ UNCHANGED index_state
    ELSE IF new_value \notin DOMAIN val_to_rank
    THEN /\ last' = Raise("update", "ValueError")
         /\ UNCHANGED index_state
    ELSE LET old_value == PyGet(current_nums, index)
             old_rank == val_to_rank[old_value]
             new_rank == val_to_rank[new_value]
         IN  /\ current_nums' = PySet(current_nums, index, new_value)
             /\ seg_tree' = Some(SegmentTree_update(seg_tree[1], index, old_rank, new_rank))
             /\ last' = Return("update", None)
             /\ UNCHANGED <<n, _initial_elements, _all_possible_values, val_to_rank,
                            rank_to_val, M>>

\* DynamicKthSmallest.update
update(index, new_value) ==
    IF seg_tree = None
    THEN /\ last' = IF n = 0 THEN Return("update", None) ELSE Raise("update", "RuntimeError")
         /\ UNCHANGED index_state
    ELSE IF ~(0 <= index /\ index < n)
    THEN /\ last' = Raise("update", "IndexError")
         /\ UNCHANGED index_state
    ELSE IF new_value \notin DOMAIN val_to_rank
    THEN /\ last' = Raise("update", "ValueError")
         /\ UNCHANGED index_state
    ELSE LET old_value == PyGet(current_nums, index)
             old_rank == val_to_rank[old_value]
             new_rank == val_to_rank[new_value]
         IN  /\ current_nums' = PySet(current_nums, index, new_value)
             /\ seg_tree' = Some(SegmentTree_update(seg_tree[1], index, old_rank, new_rank))
             /\ last' = Return("update", None)
             /\ UNCHANGED <<n, _initial_elements, _all_possible_values, val_to_rank,
                            rank_to_val, M>>

\* variant of query whose K check admits K = R - L + 2
query_outcome_k_off_by_one(nn, st, r2v, L, R, K) ==
    IF st = None
    THEN IF nn = 0 THEN Return("query", Some(-1)) ELSE Raise("query", "RuntimeError")
    ELSE IF ~(0 <= L /\ L <= R /\ R < nn)
    THEN Raise("query", "IndexError")
    ELSE IF ~(1 <= K /\ K <= (R - L + 2))
    THEN Raise("query", "ValueError")
    ELSE Return("query", Some(query_kth_smallest(st[1], L, R, K, r2v)))

\* variant of query that checks K before the range
query_outcome_checks_k_first(nn, st, r2v, L, R, K) ==
    IF st = None
    THEN IF nn = 0 THEN Return("query", Some(-1)) ELSE Raise("query", "RuntimeError")
    ELSE IF ~(1 <= K /\ K <= (R - L + 1))
    THEN Raise("query", "ValueError")
    ELSE IF ~(0 <= L /\ L <= R /\ R < nn)
    THEN Raise("query", "IndexError")
    ELSE Return("query", Some(query_kth_smallest(st[1], L, R, K, r2v)))

\* variant of query without the early return for an empty sequence
query_outcome_empty_raises(nn, st, r2v, L, R, K) ==
    IF st = None
    THEN Raise("query", "RuntimeError")
    ELSE IF ~(0 <= L /\ L <= R /\ R < nn)
    THEN Raise("query", "IndexError")
    ELSE IF ~(1 <= K /\ K <= (R - L + 1))
    THEN Raise("query", "ValueError")
    ELSE Return("query", Some(query_kth_smallest(st[1], L, R, K, r2v)))

\* the outcome of DynamicKthSmallest.query(L, R, K) on an index whose
\* fields are nn, st (seg_tree) and r2v (rank_to_val)
query_outcome(nn, st, r2v, L, R, K) ==
    IF st = None
    THEN IF nn = 0 THEN Return("query", Some(-1)) ELSE Raise("query", "RuntimeError")
    ELSE IF ~(0 <= L /\ L <= R /\ R < nn)
    THEN Raise("query", "IndexError")
    ELSE IF ~(1 <= K /\ K <= (R - L + 1))
    THEN Raise("query", "ValueError")
    ELSE Return("query", Some(query_kth_smallest(st[1], L, R, K, r2v)))

\* variant of query that stores the answer at current_nums[L]
query_writes_answer(L, R, K) ==
    LET outcome == query_outcome(n, seg_tree, rank_to_val, L, R, K)
    IN  /\ last' = outcome
        /\ current_nums' = IF outcome.kind = "ok" /\ n > 0 /\ seg_tree # None
                           THEN PySet(current_nums, L, outcome.ret[1])
                           ELSE current_nums
        /\ UNCHANGED <<n, _initial_elements, _all_possible_values, val_to_rank,
                       rank_to_val, M, seg_tree>>

\* DynamicKthSmallest.query
query(L, R, K) ==
    /\ last' = query_outcome(n, seg_tree, rank_to_val, L, R, K)
    /\ UNCHANGED index_state

\* arguments the callers pass: positions one step outside [0, n) on both
\* sides, K one step outside [1, n] on both sides
Positions == -1..n
Ks == 0..(n + 1)

\* a step of the index leaves the other objects alone
IndexOnly == UNCHANGED <<lru_state, bit_state, step_state>>

Next ==
    \/ IndexOnly /\ \E val \in Values : add_value_candidate(val)
    \/ IndexOnly /\ finalize_compression_and_build
    \/ IndexOnly /\ \E index \in Positions, new_value \in Values : update(index, new_value)
    \/ IndexOnly /\ \E L \in Positions, R \in Positions, K \in Ks : query(L, R, K)

\* no DynamicKthSmallest in use: the state of DynamicKthSmallest([])
NoIndex ==
    /\ n = 0 /\ _initial_elements = <<>> /\ current_nums = <<>>
    /\ _all_possible_values = {} /\ val_to_rank = <<>> /\ rank_to_val = <<>>
    /\ M = 0 /\ seg_tree = None
    /\ NoUpdateInProgress

\* a DynamicKthSmallest has been constructed, and nothing else
IndexInit == Init /\ NoLRUCache /\ NoFenwickTree /\ NoUpdateInProgress

Spec == IndexInit /\ [][Next]_vars

\* The documented lifecycle (docstrings of add_value_candidate and
\* finalize_compression_and_build): candidates are registered BEFORE
\* finalize, and finalize is called once.
NotYetFinalized == seg_tree = None /\ M = 0

NextProtocol ==
    \/ IndexOnly /\ NotYetFinalized /\ \E val \in Values : add_value_candidate(val)
    \/ IndexOnly /\ NotYetFinalized /\ finalize_compression_and_build
    \/ IndexOnly /\ \E index \in Positions, new_value \in Values : update(index, new_value)
    \/ IndexOnly /\ \E L \in Positions, R \in Positions, K \in Ks : query(L, R, K)

SpecProtocol == IndexInit /\ [][NextProtocol]_vars

\* ---------------------------------------------------------------- reference notions
\* (what the properties below compare the index against)
\* positions i of list (Python indices) within [L, R]
Slice(L, R) == L..R

\* the K-th smallest (K is 1-based, duplicates counted) of list[L..R]: the
\* element v of the slice with fewer than K elements below it and at least
\* K elements not above it, i.e. element K-1 of a sorted copy of the slice
KthSmallestOf(list, L, R, K) ==
    CHOOSE v \in {PyGet(list, i) : i \in Slice(L, R)} :
        /\ Cardinality({i \in Slice(L, R) : PyGet(list, i) < v}) < K
        /\ Cardinality({i \in Slice(L, R) : PyGet(list, i) <= v}) >= K

ValidRange(nn, L, R) == 0 <= L /\ L <= R /\ R < nn
ValidK(L, R, K) == 1 <= K /\ K <= R - L + 1

\* how many K in 1..R-L+1 have query(L, R, K) = x, on the index (nn, st, r2v)
AnswerCount(nn, st, r2v, L, R, x) ==
    Cardinality({K \in 1..(R - L + 1) :
                    query_outcome(nn, st, r2v, L, R, K) = Return("query", Some(x))})

\* the count of elements of rank <= rank in [L, R], as query_kth_smallest asks it
CountLe(L, R, rank) == _query_count_le(seg_tree[1], 1, 0, n - 1, L, R, rank)

\* finalize_compression_and_build is known to have completed on this index
Finalized ==
    \/ seg_tree # None
    \/ M > 0
    \/ last.op = "finalize_compression_and_build"

\* ---------------------------------------------------------------- claims

\* C1: after finalize on a non-empty sequence and any number of successful
\* updates, query(L, R, K) returns, for every valid (L, R, K), the K-th
\* smallest element of current_nums[L..R].
C1_QueryIsKthSmallest ==
    seg_tree # None =>
        \A L \in 0..(n - 1), R \in 0..(n - 1), K \in 1..n :
            (ValidRange(n, L, R) /\ ValidK(L, R, K)) =>
                query_outcome(n, seg_tree, rank_to_val, L, R, K)
                    = Return("query", Some(KthSmallestOf(current_nums, L, R, K)))

\* C1 witness: after an update, a query has returned a value that the
\* initial sequence did not contain.
C1_Witness ==
    /\ seg_tree # None
    /\ current_nums # _initial_elements
    /\ last.op = "query" /\ last.kind = "ok"
    /\ last.ret[1] \notin PySetOf(_initial_elements)
    /\ last.ret[1] \in PySetOf(current_nums)

\* C2: a successful update(p, v) changes the multiset of answers of every
\* range containing p by replacing one occurrence of the old value at p by v.
C2_UpdateReflected ==
    [][ (last'.op = "update" /\ last'.kind = "ok") =>
        \A index \in 0..(n - 1), new_value \in Values :
            (seg_tree # None /\ update(index, new_value)) =>
                \A L \in 0..index, R \in index..(n - 1), x \in Values :
                    AnswerCount(n, seg_tree', rank_to_val', L, R, x)
                        = AnswerCount(n, seg_tree, rank_to_val, L, R, x)
                          - (IF x = PyGet(current_nums, index) THEN 1 ELSE 0)
                          + (IF x = new_value THEN 1 ELSE 0) ]_vars

\* C2 witness: an update has just returned and the sequence differs from
\* the initial one.
C2_Witness ==
    /\ seg_tree # None
    /\ last.op = "update" /\ last.kind = "ok"
    /\ current_nums # _initial_elements

\* C3: a successful update(p, v) leaves the result of every valid query
\* whose range excludes p unchanged, and leaves current_nums[i] unchanged
\* for every i # p.
C3_UpdateFrame ==
    [][ (last'.op = "update" /\ last'.kind = "ok") =>
        \A index \in 0..(n - 1), new_value \in Values :
            (seg_tree # None /\ update(index, new_value)) =>
                /\ \A i \in 0..(n - 1) :
                       i # index => PyGet(current_nums', i) = PyGet(current_nums, i)
                /\ \A L \in 0..(n - 1), R \in 0..(n - 1), K \in 1..n :
                       (ValidRange(n, L, R) /\ ValidK(L, R, K) /\ (R < index \/ L > index)) =>
                           query_outcome(n, seg_tree', rank_to_val', L, R, K)
                               = query_outcome(n, seg_tree, rank_to_val, L, R, K) ]_vars

\* C3 witness: an update of a sequence of length >= 2 has changed one
\* position while another position still holds its initial value.
C3_Witness ==
    /\ seg_tree # None /\ n >= 2
    /\ last.op = "update" /\ last.kind = "ok"
    /\ \E i \in 0..(n - 1), j \in 0..(n - 1) :
           /\ PyGet(current_nums, i) # PyGet(_initial_elements, i)
           /\ PyGet(current_nums, j) = PyGet(_initial_elements, j)

\* C4: after build and after any completed updates, for every 0 <= L <= R < N
\* the count of elements of rank <= r in [L, R] is non-decreasing in r over
\* 0..M-1 and equals R-L+1 at r = M-1.
C4_CountMonotone ==
    seg_tree # None =>
        \A L \in 0..(n - 1), R \in 0..(n - 1) :
            ValidRange(n, L, R) =>
                /\ \A rank \in 0..(M - 2) : CountLe(L, R, rank) <= CountLe(L, R, rank + 1)
                /\ CountLe(L, R, M - 1) = R - L + 1

\* C4 witness: after an update, some range has a count that strictly grows
\* between rank 0 and rank M-1.
C4_Witness ==
    /\ seg_tree # None /\ M >= 2
    /\ current_nums # _initial_elements
    /\ \E L \in 0..(n - 1), R \in 0..(n - 1) :
           /\ ValidRange(n, L, R)
           /\ 0 < CountLe(L, R, 0)
           /\ CountLe(L, R, 0) < CountLe(L, R, M - 1)

\* C5: on a built index with 0 <= position < N, update with a value that
\* was not registered when finalize ran (the keys of val_to_rank, set at
\* line 270 to the initial elements plus the candidates) raises ValueError
\* and leaves current_nums, the rank maps, M and every Fenwick array as
\* they were.
C5_UnknownValueRejected ==
    [][ last'.op = "update" =>
        \A index \in 0..(n - 1), new_value \in Values :
            (/\ seg_tree # None
             /\ new_value \notin DOMAIN val_to_rank
             /\ update(index, new_value)) =>
                /\ last'.kind = "ValueError"
                /\ UNCHANGED index_state ]_vars

\* C5 witness: update has raised ValueError on a built index, for a value
\* that is not a key of val_to_rank.
C5_Witness ==
    /\ seg_tree # None
    /\ last = Raise("update", "ValueError")
    /\ Values \ DOMAIN val_to_rank # {}

\* C6 as stated: on every finalized index, query with K outside [1, R-L+1]
\* raises ValueError and modifies nothing, whatever L and R are.
C6_Original ==
    [][ last'.op = "query" =>
        \A L \in Positions, R \in Positions, K \in Ks :
            (Finalized /\ ~ValidK(L, R, K) /\ query(L, R, K)) =>
                /\ last'.kind = "ValueError"
                /\ UNCHANGED index_state ]_vars

\* C6 amended: on a built index (N >= 1) and a range with 0 <= L <= R < N,
\* query with K outside [1, R-L+1] raises ValueError and modifies nothing.
C6_InvalidK ==
    [][ (last'.op = "query" /\ seg_tree # None) =>
        \A L \in Positions, R \in Positions :
            ValidRange(n, L, R) =>
                \A K \in Ks :
                    (~ValidK(L, R, K) /\ query(L, R, K)) =>
                        /\ last'.kind = "ValueError"
                        /\ UNCHANGED index_state ]_vars

\* C6 witness: query has raised ValueError on a built index.
C6_Witness ==
    /\ seg_tree # None
    /\ last = Raise("query", "ValueError")

C10_Original ==
    [][ last'.op = "add_value_candidate" =>
        (Finalized =>
            /\ last'.kind # "ok"
            /\ UNCHANGED <<_all_possible_values, M, val_to_rank, rank_to_val>>) ]_vars

\* ------------------------------------------------------ coordinate compression
\* the rank map finalize_compression_and_build computes from a set of
\* registered values: its size and the rank of every value
RankMapFor(values) ==
    [size |-> Len(sorted(values)), rank |-> EnumerateDict(sorted(values))]

\* C11: registering a value that is already registered (as a candidate or as
\* an element of the initial sequence) before finalize leaves the universe size
\* and the rank of every value that finalize will compute as they were.
C11_ReRegistrationIdempotent ==
    [][ last'.op = "add_value_candidate" =>
        \A val \in _all_possible_values :
            (NotYetFinalized /\ add_value_candidate(val)) =>
                RankMapFor(_all_possible_values') = RankMapFor(_all_possible_values) ]_vars

\* a value of the initial sequence has been registered again, next to another
\* registered value
C11_Witness ==
    /\ last.op = "add_value_candidate"
    /\ NotYetFinalized
    /\ n > 0
    /\ _all_possible_values = PySetOf(_initial_elements)
    /\ Cardinality(_all_possible_values) >= 2

\* val_to_rank is a strictly increasing bijection from the registered values
\* onto 0..M-1 and rank_to_val is its inverse
RankBijection ==
    /\ DOMAIN val_to_rank = _all_possible_values
    /\ M = Cardinality(_all_possible_values)
    /\ Len(rank_to_val) = M
    /\ \A u \in DOMAIN val_to_rank, v \in DOMAIN val_to_rank :
           u < v => val_to_rank[u] < val_to_rank[v]
    /\ \A v \in DOMAIN val_to_rank :
           /\ val_to_rank[v] \in 0..(M - 1)
           /\ rank_to_val[val_to_rank[v] + 1] = v
    /\ \A r \in 0..(M - 1) :
           /\ rank_to_val[r + 1] \in DOMAIN val_to_rank
           /\ val_to_rank[rank_to_val[r + 1]] = r

\* C12: when finalize_compression_and_build returns, the rank map is a strictly
\* monotonic bijection between the registered values (initial elements and
\* candidates) and 0..M-1, with rank_to_val the inverse of val_to_rank.
C12_RankMapIsMonotoneBijection ==
    [][ (last'.op = "finalize_compression_and_build" /\ last'.kind = "ok") =>
            RankBijection' ]_vars

\* finalize has ranked at least two values, one of them a candidate that is
\* not in the initial sequence
C12_Witness ==
    /\ last.op = "finalize_compression_and_build"
    /\ last.kind = "ok"
    /\ M >= 2
    /\ DOMAIN val_to_rank = _all_possible_values
    /\ _all_possible_values \ PySetOf(_initial_elements) # {}

\* C13 (as stated): once finalize has completed, no call changes M, val_to_rank
\* or rank_to_val.
C13_Original ==
    [][ Finalized => UNCHANGED <<M, val_to_rank, rank_to_val>> ]_vars

\* C15 (as stated): finalize on an empty initial sequence leaves M = 0, both
\* rank maps empty and no tree, whatever candidates were registered.
C15_Original ==
    [][ (last'.op = "finalize_compression_and_build" /\ n = 0) =>
            /\ M' = 0
            /\ val_to_rank' = <<>>
            /\ rank_to_val' = <<>>
            /\ seg_tree' = None ]_vars

\* C15 (amended): finalize on an empty initial sequence returns normally and
\* builds no tree; with no candidate registered it changes nothing (M = 0 and
\* empty rank maps), and with candidates registered it ranks them, so that M
\* is the number of distinct candidates.
C15_EmptySequenceFinalize ==
    [][ (last'.op = "finalize_compression_and_build" /\ n = 0) =>
            /\ last'.kind = "ok"
            /\ seg_tree' = None
            /\ UNCHANGED <<n, _initial_elements, current_nums, _all_possible_values>>
            /\ IF _all_possible_values = {}
               THEN M' = 0 /\ val_to_rank' = <<>> /\ rank_to_val' = <<>>
               ELSE /\ M' = Cardinality(_all_possible_values)
                    /\ M' > 0
                    /\ DOMAIN val_to_rank' = _all_possible_values
                    /\ rank_to_val' = sorted(_all_possible_values) ]_vars

\* finalize has run on an empty sequence with candidates registered
C15_Witness ==
    /\ last.op = "finalize_compression_and_build"
    /\ n = 0
    /\ seg_tree = None
    /\ M >= 2

\* C16: for a non-empty initial sequence, every update and every query called
\* before finalize_compression_and_build raises RuntimeError and changes
\* neither current_nums nor the registered values (nor anything else).
C16_NotUsableBeforeFinalize ==
    [][ (n > 0 /\ ~Finalized /\ last'.op \in {"update", "query"}) =>
            /\ last'.kind = "RuntimeError"
            /\ UNCHANGED index_state ]_vars

\* an update was refused on a non-empty sequence that is not finalized, with
\* a candidate already registered
C16_Witness ==
    /\ n > 0
    /\ ~Finalized
    /\ last = Raise("update", "RuntimeError")
    /\ _all_possible_values # PySetOf(_initial_elements)

\* ===================================================================== LRUCache
\* src/implement-lru-cache and src/design-an-lru-cache: a dict from key to
\* Node and a doubly linked list of the Nodes between two sentinels, most
\* recently used first. The two classes differ in _pop_tail and in the
\* eviction branch of put. A Node object is an id (a key of `nodes`); a
\* reference to a Node is Some(id), the reference None is None.
MaxCapacity == 2
NumKeys == 3
NumCacheValues == 2

Keys == 1..NumKeys
CacheValues == {100 * i : i \in 1..NumCacheValues}
Implementations == {"implement-lru-cache", "design-an-lru-cache"}

\* Node.__init__
Node(key, value) == [key |-> key, value |-> value, prev |-> None, next |-> None]

\* self.head and self.tail: the two sentinel Nodes, created first
head == 0
tail == 1

\* the object a reference points to
Deref(ref) == ref[1]

\* the id of a newly allocated object
NewId(heap) == CHOOSE id \in 0..Cardinality(DOMAIN heap) :
                   /\ id \notin DOMAIN heap
                   /\ \A j \in 0..(id - 1) : j \in DOMAIN heap

\* heap with one more object
Alloc(heap, id, obj) == [i \in DOMAIN heap \cup {id} |-> IF i = id THEN obj ELSE heap[i]]

\* d[k] = v and del d[k] on a dict
DictSet(d, k, v) == [x \in DOMAIN d \cup {k} |-> IF x = k THEN v ELSE d[x]]
DictDel(d, k) == [x \in DOMAIN d \ {k} |-> d[x]]

\* the objects still referenced once a call has returned: the sentinels and
\* the Nodes in the dict (an evicted Node is garbage)
Collect(heap, d) == [i \in {head, tail} \cup {d[k] : k \in DOMAIN d} |-> heap[i]]

\* LRUCache._add_node (the same statements in both classes)
_add_node(heap, node) ==
    LET h1 == [heap EXCEPT ![node].prev = Some(head)]
        h2 == [h1 EXCEPT ![node].next = h1[head].next]
        h3 == [h2 EXCEPT ![Deref(h2[head].next)].prev = Some(node)]
    IN  [h3 EXCEPT ![head].next = Some(node)]

\* LRUCache._remove_node (the same statements in both classes)
_remove_node(heap, node) ==
    LET prev_node == heap[node].prev
        next_node == heap[node].next
        h1 == [heap EXCEPT ![Deref(prev_node)].next = next_node]
    IN  [h1 EXCEPT ![Deref(next_node)].prev = prev_node]

\* LRUCache._move_to_head (the same statements in both classes)
_move_to_head(heap, node) == _add_node(_remove_node(heap, node), node)

\* variant of _pop_tail that takes the Node next to the head sentinel
_pop_tail_takes_head(heap) ==
    LET lru_node == heap[head].next
    IN  [heap |-> _remove_node(heap, Deref(lru_node)), ret |-> lru_node]

\* LRUCache._pop_tail of implement-lru-cache: the heap afterwards and the
\* reference returned
_pop_tail_implement(heap) ==
    LET lru_node == heap[tail].prev
    IN  [heap |-> _remove_node(heap, Deref(lru_node)), ret |-> lru_node]

\* LRUCache._pop_tail of design-an-lru-cache: None if the list is empty
_pop_tail_design(heap) ==
    IF heap[tail].prev = Some(head)
    THEN [heap |-> heap, ret |-> None]
    ELSE LET lru_node == heap[tail].prev
         IN  [heap |-> _remove_node(heap, Deref(lru_node)), ret |-> lru_node]

\* LRUCache.__init__(capacity) of either class, for a positive capacity
LRUCache(c) ==
    /\ capacity = c
    /\ cache = <<>>
    /\ nodes = [id \in {head, tail} |->
                   IF id = head THEN [Node(0, 0) EXCEPT !.next = Some(tail)]
                   ELSE [Node(0, 0) EXCEPT !.prev = Some(head)]]
    /\ lru_history = [order |-> <<>>, value |-> <<>>]
    /\ last = Return("__init__", None)

\* an LRUCache of either class and of capacity 1..MaxCapacity has been
\* constructed, and nothing else
LRUInit ==
    /\ \E i \in Implementations, c \in 1..MaxCapacity : impl = i /\ LRUCache(c)
    /\ NoIndex
    /\ NoFenwickTree

\* LRUCache.get of implement-lru-cache
get_implement(key) ==
    IF key \notin DOMAIN cache
    THEN /\ last' = Return("get", Some(-1))
         /\ UNCHANGED <<impl, capacity, cache, nodes>>
    ELSE LET node == cache[key]
         IN  /\ nodes' = _move_to_head(nodes, node)
             /\ last' = Return("get", Some(nodes[node].value))
             /\ UNCHANGED <<impl, capacity, cache>>

\* LRUCache.get of design-an-lru-cache
get_design(key) ==
    IF key \in DOMAIN cache
    THEN LET node == cache[key]
         IN  /\ nodes' = _move_to_head(nodes, node)
             /\ last' = Return("get", Some(nodes[node].value))
             /\ UNCHANGED <<impl, capacity, cache>>
    ELSE /\ last' = Return("get", Some(-1))
         /\ UNCHANGED <<impl, capacity, cache, nodes>>

\* variant of put that evicts from the list but leaves the dict entry
put_keeps_evicted_entry(key, value) ==
    IF key \in DOMAIN cache
    THEN LET node == cache[key]
             h1 == [nodes EXCEPT ![node].value = value]
         IN  /\ nodes' = _move_to_head(h1, node)
             /\ last' = Return("put", None)
             /\ UNCHANGED <<impl, capacity, cache>>
    ELSE LET new_node == NewId(nodes)
             h1 == Alloc(nodes, new_node, Node(key, value))
             cache1 == DictSet(cache, key, new_node)
             h2 == _add_node(h1, new_node)
         IN  /\ IF Cardinality(DOMAIN cache1) > capacity
                THEN LET popped == _pop_tail_implement(h2)
                     IN  /\ cache' = cache1
                         /\ nodes' = Collect(popped.heap, cache1)
                ELSE /\ cache' = cache1
                     /\ nodes' = Collect(h2, cache1)
             /\ last' = Return("put", None)
             /\ UNCHANGED <<impl, capacity>>

\* LRUCache.put of implement-lru-cache
put_implement(key, value) ==
    IF key \in DOMAIN cache
    THEN LET node == cache[key]
             h1 == [nodes EXCEPT ![node].value = value]
         IN  /\ nodes' = _move_to_head(h1, node)
             /\ last' = Return("put", None)
             /\ UNCHANGED <<impl, capacity, cache>>
    ELSE LET new_node == NewId(nodes)
             h1 == Alloc(nodes, new_node, Node(key, value))
             cache1 == DictSet(cache, key, new_node)
             h2 == _add_node(h1, new_node)
         IN  /\ IF Cardinality(DOMAIN cache1) > capacity
                THEN LET popped == _pop_tail_implement(h2)
                         lru_node == Deref(popped.ret)
                         cache2 == DictDel(cache1, popped.heap[lru_node].key)
                     IN  /\ cache' = cache2
                         /\ nodes' = Collect(popped.heap, cache2)
                ELSE /\ cache' = cache1
                     /\ nodes' = Collect(h2, cache1)
             /\ last' = Return("put", None)
             /\ UNCHANGED <<impl, capacity>>

\* LRUCache.put of design-an-lru-cache
put_design(key, value) ==
    IF key \in DOMAIN cache
    THEN LET node == cache[key]
             h1 == [nodes EXCEPT ![node].value = value]
         IN  /\ nodes' = _move_to_head(h1, node)
             /\ last' = Return("put", None)
             /\ UNCHANGED <<impl, capacity, cache>>
    ELSE LET new_node == NewId(nodes)
             h1 == Alloc(nodes, new_node, Node(key, value))
             cache1 == DictSet(cache, key, new_node)
             h2 == _add_node(h1, new_node)
         IN  /\ IF Cardinality(DOMAIN cache1) > capacity
                THEN LET popped == _pop_tail_design(h2)
                         cache2 == IF popped.ret # None
                                   THEN DictDel(cache1, popped.heap[Deref(popped.ret)].key)
                                   ELSE cache1
                     IN  /\ cache' = cache2
                         /\ nodes' = Collect(popped.heap, cache2)
                ELSE /\ cache' = cache1
                     /\ nodes' = Collect(h2, cache1)
             /\ last' = Return("put", None)
             /\ UNCHANGED <<impl, capacity>>

\* get and put of the class that was constructed
get(key) == IF impl = "implement-lru-cache" THEN get_implement(key) ELSE get_design(key)
put(key, value) ==
    IF impl = "implement-lru-cache" THEN put_implement(key, value) ELSE put_design(key, value)

\* the record of use: the keys that were put, ordered by their most recent
\* put or successful get (oldest first), and the value each was last put with
Touch(order, key) == SelectSeq(order, LAMBDA k : k # key) \o <<key>>

\* a get call, and what it adds to the record of use
LRUGet(key) ==
    /\ get(key)
    /\ lru_history' = IF last'.ret = Some(-1) THEN lru_history
                      ELSE [lru_history EXCEPT !.order = Touch(@, key)]
    /\ UNCHANGED <<index_state, bit_state, step_state>>

\* a put call, and what it adds to the record of use
LRUPut(key, value) ==
    /\ put(key, value)
    /\ lru_history' = [order |-> Touch(lru_history.order, key),
                       value |-> DictSet(lru_history.value, key, value)]
    /\ UNCHANGED <<index_state, bit_state, step_state>>

NextLRU ==
    \/ \E key \in Keys : LRUGet(key)
    \/ \E key \in Keys, value \in CacheValues : LRUPut(key, value)

\* an LRUCache of either class under any sequence of get and put
SpecLRU == LRUInit /\ [][NextLRU]_vars

\* the Nodes reached from `node` by following next up to the tail sentinel
RECURSIVE Chain(_, _, _)
Chain(heap, node, fuel) ==
    IF node = tail \/ fuel = 0 THEN <<>>
    ELSE <<node>> \o Chain(heap, Deref(heap[node].next), fuel - 1)

\* the Nodes linked between the sentinels, most recently used first
Linked == Chain(nodes, Deref(nodes[head].next), Cardinality(DOMAIN nodes))

\* C17: an LRUCache of capacity >= 1 never stores more keys than its capacity,
\* and the keys of the dict are exactly the keys of the Nodes linked between
\* the head and tail sentinels, each key on exactly one Node.
C17_SizeAndListAgree ==
    /\ Cardinality(DOMAIN cache) <= capacity
    /\ {nodes[Linked[i]].key : i \in 1..Len(Linked)} = DOMAIN cache
    /\ Len(Linked) = Cardinality(DOMAIN cache)
    /\ nodes[IF Linked = <<>> THEN head ELSE Linked[Len(Linked)]].next = Some(tail)

\* a full cache of capacity 2 after an eviction and a later successful get
C17_Witness ==
    /\ capacity = 2
    /\ Cardinality(DOMAIN cache) = 2
    /\ DOMAIN lru_history.value \ DOMAIN cache # {}
    /\ last.op = "get"
    /\ last.ret # Some(-1)

\* the stored key whose most recent put or successful get is the oldest
OldestStored ==
    LET pos(k) == CHOOSE i \in 1..Len(lru_history.order) : lru_history.order[i] = k
    IN  CHOOSE k \in DOMAIN cache : \A j \in DOMAIN cache : pos(k) <= pos(j)

\* C18: a put of a new key into a full cache evicts exactly the least recently
\* used key and stores the new one; every key stored afterwards has the value
\* of its latest put; get returns -1 for a key that is not stored, and a key
\* that is not stored (an evicted one in particular) becomes stored again only
\* by a put of that key.
C18_EvictsLeastRecentlyUsed ==
    [][ /\ last'.op = "put" =>
            \A key \in Keys \ DOMAIN cache, value \in CacheValues :
                (Cardinality(DOMAIN cache) = capacity /\ LRUPut(key, value)) =>
                    /\ DOMAIN cache' = (DOMAIN cache \ {OldestStored}) \cup {key}
                    /\ \A k \in DOMAIN cache' :
                           nodes'[cache'[k]].value = lru_history'.value[k]
        /\ last'.op = "get" =>
            \A key \in Keys \ DOMAIN cache : LRUGet(key) => last'.ret = Some(-1)
        /\ \A k \in DOMAIN cache' \ DOMAIN cache :
               last'.op = "put" /\ LRUPut(k, lru_history'.value[k]) ]_vars

\* a put has just evicted the least recently used of the two keys of a full
\* cache of capacity 2 and stored a third key
C18_Witness ==
    /\ capacity = 2
    /\ last.op = "put"
    /\ Len(lru_history.order) = 3
    /\ lru_history.order[1] \notin DOMAIN cache
    /\ DOMAIN cache = {lru_history.order[2], lru_history.order[3]}

\* ============================================================ node counters
\* the nodes of the segment tree over start..end rooted at node_idx, each
\* with the range it covers, as the recursion of _update_recursive and
\* _query_count_le lays them out
RECURSIVE NodesOf(_, _, _)
NodesOf(node_idx, start_idx, end_idx) ==
    {<<node_idx, start_idx, end_idx>>} \cup
    IF start_idx = end_idx THEN {}
    ELSE LET mid_idx == (start_idx + end_idx) \div 2
         IN  NodesOf(2 * node_idx, start_idx, mid_idx)
             \cup NodesOf(2 * node_idx + 1, mid_idx + 1, end_idx)

\* the number of elements of rank r a node's counter holds
NodeFrequency(ft, r) == FenwickTree_query(ft, r) - FenwickTree_query(ft, r - 1)

\* C19: after the build and after every update (one finalize, any number of
\* updates), for every node of the segment tree covering start..end and every
\* rank r in 0..M-1, the node's frequency of r, query(r) - query(r-1), is the
\* number of positions i in start..end with val_to_rank[current_nums[i]] = r.
C19_NodeCountersMatchSequence ==
    seg_tree # None =>
        \A node \in NodesOf(1, 0, n - 1), r \in 0..(M - 1) :
            NodeFrequency(seg_tree[1].tree[node[1]], r)
                = Cardinality({i \in node[2]..node[3] :
                                  val_to_rank[PyGet(current_nums, i)] = r})

\* an update has replaced an element of a two-element sequence by a value
\* that was not in it, with three values ranked
C19_Witness ==
    /\ seg_tree # None
    /\ n = 2
    /\ M = 3
    /\ last = Return("update", None)
    /\ PySetOf(current_nums) \ PySetOf(_initial_elements) # {}

\* ====================================================== FenwickTree on its own
\* a FenwickTree of some capacity under any sequence of update(rank, delta)
\* with rank in 0..size-1, and query(rank). bit_history[rank] is the sum of
\* the deltas applied at rank.
MaxFenwickSize == 4
MaxDeltaSum == 1
Deltas == {-1, 1}

\* FenwickTree.__init__(size) for a capacity of 1..MaxFenwickSize has been
\* called, and nothing else
FenwickInit ==
    /\ \E size \in 1..MaxFenwickSize :
           /\ bit = FenwickTree(size)
           /\ bit_history = [r \in 0..(size - 1) |-> 0]
           /\ last = Return("__init__", None)
    /\ NoIndex
    /\ NoLRUCache

\* a call of FenwickTree.update(rank, delta)
BitUpdate(rank, delta) ==
    /\ bit_history[rank] + delta \in (-MaxDeltaSum)..MaxDeltaSum
    /\ bit' = FenwickTree_update(bit, rank, delta)
    /\ bit_history' = [bit_history EXCEPT ![rank] = @ + delta]
    /\ last' = Return("update", None)
    /\ UNCHANGED <<index_state, lru_state, step_state>>

\* a call of FenwickTree.query(rank)
BitQuery(rank) ==
    /\ last' = Return("query", Some(FenwickTree_query(bit, rank)))
    /\ UNCHANGED <<bit, bit_history, index_state, lru_state, step_state>>

NextFenwick ==
    \/ \E rank \in 0..(bit.size - 1), delta \in Deltas : BitUpdate(rank, delta)
    \/ \E rank \in 0..(bit.size - 1) : BitQuery(rank)

SpecFenwick == FenwickInit /\ [][NextFenwick]_vars

\* the cells the while loop of FenwickTree.update writes, in order, from
\* index_1_based
RECURSIVE FenwickTree_update_cells(_, _)
FenwickTree_update_cells(size, index_1_based) ==
    IF index_1_based <= size
    THEN <<index_1_based>>
         \o FenwickTree_update_cells(size, index_1_based + LowBit(index_1_based))
    ELSE <<>>

\* sum of the deltas applied at ranks 0..r
RECURSIVE SumUpTo(_, _)
SumUpTo(history, r) == IF r < 0 THEN 0 ELSE history[r] + SumUpTo(history, r - 1)

\* C20: for a FenwickTree of capacity M, after any sequence of update(rank,
\* delta) with every rank in 0..M-1, query(r) is for every r in 0..M-1 the sum
\* of the deltas applied at ranks <= r; an update writes only cells with an
\* index in 1..M, and its loop ends after at most M strictly increasing cells.
C20_FenwickPrefixSums ==
    [][ /\ \A r \in 0..(bit'.size - 1) :
               FenwickTree_query(bit', r) = SumUpTo(bit_history', r)
        /\ last'.op = "update" =>
               \A rank \in 0..(bit.size - 1), delta \in Deltas :
                   BitUpdate(rank, delta) =>
                       LET cells == FenwickTree_update_cells(bit.size, rank + 1)
                       IN  /\ Len(cells) \in 1..bit.size
                           /\ \A j \in 1..Len(cells) : cells[j] \in 1..bit.size
                           /\ \A j \in 1..(Len(cells) - 1) : cells[j] < cells[j + 1]
                           /\ bit'.size = bit.size
                           /\ bit'.tree =
                                  [i \in 0..bit.size |->
                                      IF \E j \in 1..Len(cells) : cells[j] = i
                                      THEN bit.tree[i] + delta ELSE bit.tree[i]] ]_vars

\* a tree of capacity 4 after +1 at rank 0 and -1 at rank 2: the first update
\* has walked up to cell 2 and back out of cell 4
C20_Witness ==
    /\ bit # <<>>
    /\ bit.size = 4
    /\ last.op = "update"
    /\ bit_history = [r \in 0..3 |-> IF r = 0 THEN 1 ELSE IF r = 2 THEN -1 ELSE 0]
    /\ bit.tree[2] = 1
    /\ bit.tree[4] = 0

\* ================================================= update, statement by statement
\* DynamicKthSmallest.update run one statement at a time: the checks and the
\* reads of the ranks (lines 288-302), the write of current_nums (line 304),
\* and then seg_tree.update (line 305), one FenwickTree adjustment of
\* _update_recursive (line 153) per step. A query may run between any two
\* steps: the classes have no lock.

\* the calls of one pass of _update_recursive for target_idx, in the order
\* they are made: node index and covered range of each
RECURSIVE _update_recursive_visits(_, _, _, _)
_update_recursive_visits(node_idx, start_idx, end_idx, target_idx) ==
    <<<<node_idx, start_idx, end_idx>>>> \o
    IF start_idx = end_idx THEN <<>>
    ELSE LET mid_idx == (start_idx + end_idx) \div 2
         IN  IF target_idx <= mid_idx
             THEN _update_recursive_visits(2 * node_idx, start_idx, mid_idx, target_idx)
             ELSE _update_recursive_visits(2 * node_idx + 1, mid_idx + 1, end_idx,
                                           target_idx)

\* variant of the entry of update that writes current_nums before it looks
\* the new value up
UpdateCall_writes_before_check(index, new_value) ==
    /\ frame.pc = "idle"
    /\ IF seg_tree = None
       THEN /\ last' = IF n = 0 THEN Return("update", None)
                       ELSE Raise("update", "RuntimeError")
            /\ UNCHANGED <<index_state, step_state>>
       ELSE IF ~(0 <= index /\ index < n)
       THEN /\ last' = Raise("update", "IndexError")
            /\ UNCHANGED <<index_state, step_state>>
       ELSE IF new_value \notin DOMAIN val_to_rank
       THEN /\ last' = Raise("update", "ValueError")
            /\ current_nums' = PySet(current_nums, index, new_value)
            /\ UNCHANGED <<n, _initial_elements, _all_possible_values, val_to_rank,
                           rank_to_val, M, seg_tree, step_state>>
       ELSE LET old_value == PyGet(current_nums, index)
                old_rank == val_to_rank[old_value]
                new_rank == val_to_rank[new_value]
            IN  /\ frame' = [IdleFrame EXCEPT !.pc = "write", !.index = index,
                                              !.new_value = new_value,
                                              !.old_rank = old_rank,
                                              !.new_rank = new_rank]
                /\ at_call' = <<[current_nums |-> current_nums,
                                 seg_tree |-> seg_tree[1]]>>
                /\ UNCHANGED <<index_state, last>>
    /\ UNCHANGED <<lru_state, bit_state>>

\* update(index, new_value) is called: lines 288-302. A failed check ends the
\* call; otherwise the ranks are read and the call goes on to line 304.
UpdateCall(index, new_value) ==
    /\ frame.pc = "idle"
    /\ IF seg_tree = None
       THEN /\ last' = IF n = 0 THEN Return("update", None)
                       ELSE Raise("update", "RuntimeError")
            /\ UNCHANGED <<index_state, step_state>>
       ELSE IF ~(0 <= index /\ index < n)
       THEN /\ last' = Raise("update", "IndexError")
            /\ UNCHANGED <<index_state, step_state>>
       ELSE IF new_value \notin DOMAIN val_to_rank
       THEN /\ last' = Raise("update", "ValueError")
            /\ UNCHANGED <<index_state, step_state>>
       ELSE LET old_value == PyGet(current_nums, index)
                old_rank == val_to_rank[old_value]
                new_rank == val_to_rank[new_value]
            IN  /\ frame' = [IdleFrame EXCEPT !.pc = "write", !.index = index,
                                              !.new_value = new_value,
                                              !.old_rank = old_rank,
                                              !.new_rank = new_rank]
                /\ at_call' = <<[current_nums |-> current_nums,
                                 seg_tree |-> seg_tree[1]]>>
                /\ UNCHANGED <<index_state, last>>
    /\ UNCHANGED <<lru_state, bit_state>>

\* variant of line 304 that leaves current_nums as it is
UpdateWrite_keeps_old ==
    /\ frame.pc = "write"
    /\ frame' = [frame EXCEPT !.pc = "adjust", !.delta = -1, !.node_idx = 1,
                              !.start_idx = 0, !.end_idx = n - 1]
    /\ UNCHANGED <<index_state, last, at_call, lru_state, bit_state>>

\* line 304, self.current_nums[index] = new_value; the call then enters
\* seg_tree.update and its first _update_recursive(1, 0, n - 1, ..., -1)
UpdateWrite ==
    /\ frame.pc = "write"
    /\ current_nums' = PySet(current_nums, frame.index, frame.new_value)
    /\ frame' = [frame EXCEPT !.pc = "adjust", !.delta = -1, !.node_idx = 1,
                              !.start_idx = 0, !.end_idx = n - 1]
    /\ UNCHANGED <<n, _initial_elements, _all_possible_values, val_to_rank,
                   rank_to_val, M, seg_tree, last, at_call, lru_state, bit_state>>

\* variant of the adjustment step that applies the decrement and the
\* increment on a node before it goes down to the next node
UpdateAdjust_node_by_node ==
    /\ frame.pc = "adjust"
    /\ LET rank == IF frame.delta = -1 THEN frame.old_rank ELSE frame.new_rank
           st == seg_tree[1]
           mid_idx == (frame.start_idx + frame.end_idx) \div 2
       IN  /\ seg_tree' = Some([st EXCEPT !.tree[frame.node_idx] =
                                              FenwickTree_update(@, rank, frame.delta)])
           /\ IF frame.delta = -1
              THEN /\ frame' = [frame EXCEPT !.delta = 1]
                   /\ UNCHANGED <<last, at_call>>
              ELSE IF frame.start_idx = frame.end_idx
              THEN /\ frame' = IdleFrame
                   /\ at_call' = <<>>
                   /\ last' = Return("update", None)
              ELSE /\ frame' = IF frame.index <= mid_idx
                               THEN [frame EXCEPT !.delta = -1,
                                                  !.node_idx = 2 * frame.node_idx,
                                                  !.end_idx = mid_idx]
                               ELSE [frame EXCEPT !.delta = -1,
                                                  !.node_idx = 2 * frame.node_idx + 1,
                                                  !.start_idx = mid_idx + 1]
                   /\ UNCHANGED <<last, at_call>>
    /\ UNCHANGED <<n, _initial_elements, current_nums, _all_possible_values,
                   val_to_rank, rank_to_val, M, lru_state, bit_state>>

\* variant of the adjustment step whose passes end one node above the leaf
UpdateAdjust_stops_above_leaf ==
    /\ frame.pc = "adjust"
    /\ LET rank == IF frame.delta = -1 THEN frame.old_rank ELSE frame.new_rank
           st == seg_tree[1]
           mid_idx == (frame.start_idx + frame.end_idx) \div 2
       IN  /\ seg_tree' = IF frame.start_idx = frame.end_idx /\ frame.node_idx # 1
                          THEN seg_tree
                          ELSE Some([st EXCEPT !.tree[frame.node_idx] =
                                         FenwickTree_update(@, rank, frame.delta)])
           /\ IF frame.start_idx = frame.end_idx
              THEN IF frame.delta = -1
                   THEN /\ frame' = [frame EXCEPT !.delta = 1, !.node_idx = 1,
                                                  !.start_idx = 0, !.end_idx = n - 1]
                        /\ UNCHANGED <<last, at_call>>
                   ELSE /\ frame' = IdleFrame
                        /\ at_call' = <<>>
                        /\ last' = Return("update", None)
              ELSE /\ frame' = IF frame.index <= mid_idx
                               THEN [frame EXCEPT !.node_idx = 2 * frame.node_idx,
                                                  !.end_idx = mid_idx]
                               ELSE [frame EXCEPT !.node_idx = 2 * frame.node_idx + 1,
                                                  !.start_idx = mid_idx + 1]
                   /\ UNCHANGED <<last, at_call>>
    /\ UNCHANGED <<n, _initial_elements, current_nums, _all_possible_values,
                   val_to_rank, rank_to_val, M, lru_state, bit_state>>

\* one call of _update_recursive inside seg_tree.update (lines 173-174): the
\* FenwickTree adjustment of line 153 on the current node, then the descent
\* to a child (lines 158-162); at the leaf the first pass (delta -1, line 173)
\* is followed by the second (delta 1, line 174) from the root, and the second
\* by the return of update
UpdateAdjust ==
    /\ frame.pc = "adjust"
    /\ LET rank == IF frame.delta = -1 THEN frame.old_rank ELSE frame.new_rank
           st == seg_tree[1]
           mid_idx == (frame.start_idx + frame.end_idx) \div 2
       IN  /\ seg_tree' = Some([st EXCEPT !.tree[frame.node_idx] =
                                              FenwickTree_update(@, rank, frame.delta)])
           /\ IF frame.start_idx = frame.end_idx
              THEN IF frame.delta = -1
                   THEN /\ frame' = [frame EXCEPT !.delta = 1, !.node_idx = 1,
                                                  !.start_idx = 0, !.end_idx = n - 1]
                        /\ UNCHANGED <<last, at_call>>
                   ELSE /\ frame' = IdleFrame
                        /\ at_call' = <<>>
                        /\ last' = Return("update", None)
              ELSE /\ frame' = IF frame.index <= mid_idx
                               THEN [frame EXCEPT !.node_idx = 2 * frame.node_idx,
                                                  !.end_idx = mid_idx]
                               ELSE [frame EXCEPT !.node_idx = 2 * frame.node_idx + 1,
                                                  !.start_idx = mid_idx + 1]
                   /\ UNCHANGED <<last, at_call>>
    /\ UNCHANGED <<n, _initial_elements, current_nums, _all_possible_values,
                   val_to_rank, rank_to_val, M, lru_state, bit_state>>

\* the documented lifecycle with update run statement by statement and
\* queries between any two statements
NextSteps ==
    \/ IndexOnly /\ NotYetFinalized /\ \E val \in Values : add_value_candidate(val)
    \/ IndexOnly /\ NotYetFinalized /\ finalize_compression_and_build
    \/ \E index \in Positions, new_value \in Values : UpdateCall(index, new_value)
    \/ UpdateWrite
    \/ UpdateAdjust
    \/ IndexOnly /\ \E L \in Positions, R \in Positions, K \in Ks : query(L, R, K)

SpecSteps == IndexInit /\ [][NextSteps]_vars

\* the nodes of the path of the update in progress, root first
UpdatePath == _update_recursive_visits(1, 0, n - 1, frame.index)

\* a node's counter as it was at the call, after the decrement of the old
\* rank alone, and after the decrement and the increment of the new rank
CounterAtCall(node_idx) == at_call[1].seg_tree.tree[node_idx]
CounterHalfAdjusted(node_idx) ==
    FenwickTree_update(CounterAtCall(node_idx), frame.old_rank, -1)
CounterAdjusted(node_idx) ==
    FenwickTree_update(CounterHalfAdjusted(node_idx), frame.new_rank, 1)

\* C21 (as stated): the write of current_nums[position] happens last, so that
\* while counter adjustments are still to be made the sequence holds the old
\* value.
C21_Original ==
    frame.pc = "adjust" =>
        PyGet(current_nums, frame.index) = PyGet(at_call[1].current_nums, frame.index)

\* C21 (amended): within one update the write of current_nums[position] comes
\* first: it is made once the checks have passed and before any counter is
\* adjusted, and no later statement of the update changes current_nums.
C21_WriteComesFirst ==
    [][ /\ (frame.pc = "write" /\ frame' # frame) =>
               /\ current_nums = at_call[1].current_nums
               /\ seg_tree[1] = at_call[1].seg_tree
               /\ current_nums' = PySet(current_nums, frame.index, frame.new_value)
               /\ seg_tree' = seg_tree
               /\ frame'.pc = "adjust"
        /\ (frame.pc = "adjust" /\ frame' # frame) =>
               /\ current_nums = PySet(at_call[1].current_nums, frame.index,
                                       frame.new_value)
               /\ current_nums' = current_nums
               /\ seg_tree' # seg_tree ]_vars

\* the new value is in the sequence and no counter has been adjusted yet
C21_Witness ==
    /\ frame.pc = "adjust"
    /\ frame.delta = -1
    /\ frame.node_idx = 1
    /\ seg_tree[1] = at_call[1].seg_tree
    /\ PyGet(current_nums, frame.index) = frame.new_value
    /\ PyGet(at_call[1].current_nums, frame.index) # frame.new_value

C23_AllOrNothing ==
    [][ /\ (frame.pc = "idle" /\ frame'.pc = "idle" /\ last'.op = "update") =>
               /\ UNCHANGED index_state
               /\ \A index \in Positions, new_value \in Values :
                      UpdateCall(index, new_value) =>
                          \/ seg_tree = None
                          \/ ~(0 <= index /\ index < n)
                          \/ new_value \notin DOMAIN val_to_rank
        /\ (frame.pc = "idle" /\ frame'.pc # "idle") =>
               /\ UNCHANGED index_state
               /\ frame'.pc = "write"
               /\ seg_tree # None
               /\ 0 <= frame'.index /\ frame'.index < n
               /\ frame'.new_value \in DOMAIN val_to_rank
        /\ (frame.pc # "idle" /\ frame' # frame) =>
               \/ last' = last
               \/ frame'.pc = "idle" /\ last' = Return("update", None)
        /\ (frame.pc # "idle" /\ frame'.pc = "idle") =>
               /\ current_nums' = PySet(at_call[1].current_nums, frame.index,
                                        frame.new_value)
               /\ seg_tree' = Some(SegmentTree_update(at_call[1].seg_tree, frame.index,
                                                      frame.old_rank, frame.new_rank))
               /\ \A i \in 1..Len(UpdatePath) :
                      seg_tree'[1].tree[UpdatePath[i][1]]
                          = CounterAdjusted(UpdatePath[i][1])
               /\ UNCHANGED <<n, _initial_elements, _all_possible_values,
                              val_to_rank, rank_to_val, M>> ]_vars

\* an update of a two-element sequence has returned after changing an element
\* to a value of another rank
C23_Witness ==
    /\ frame.pc = "idle"
    /\ last = Return("update", None)
    /\ n = 2
    /\ seg_tree # None
    /\ current_nums # _initial_elements
    /\ seg_tree[1] # SegmentTree(_initial_elements, val_to_rank, M)

\* C24: the classes have no lock, and serialization by the caller is needed.
\* Every valid query that runs while no counter adjustment of an update is
\* pending returns the K-th smallest of current_nums[L..R]; a query that does
\* not can only be one that runs between the adjustments of an update in
\* progress (the witness is such a query, returning a value that is in
\* neither the sequence before the update nor the sequence after it).
C24_OnlyInterleavedQueriesGoWrong ==
    [][ (last'.op = "query" /\ seg_tree # None /\ frame.pc # "adjust") =>
            \A L \in 0..(n - 1), R \in 0..(n - 1), K \in 1..n :
                (/\ ValidRange(n, L, R)
                 /\ ValidK(L, R, K)
                 /\ query(L, R, K)) =>
                    /\ last'.kind = "ok"
                    /\ last'.ret = Some(KthSmallestOf(current_nums, L, R, K)) ]_vars

\* a query between the adjustments of an update has seen counters that are
\* neither those before nor those after the update and has returned a value
\* that occurs neither in the sequence before the update nor in the one after
C24_Witness ==
    /\ frame.pc = "adjust"
    /\ last.op = "query"
    /\ last.kind = "ok"
    /\ seg_tree[1] # at_call[1].seg_tree
    /\ seg_tree[1] # SegmentTree_update(at_call[1].seg_tree, frame.index,
                                        frame.old_rank, frame.new_rank)
    /\ last.ret[1] \notin PySetOf(at_call[1].current_nums)
    /\ last.ret[1] \notin PySetOf(current_nums)

\* ================================================================ tree shape
\* A finalized index over longer sequences, for the properties of the
\* recursions over the tree: DynamicKthSmallest(initial_nums) for every
\* initial_nums of length 1..MaxShapeN over ShapeValues, with every value of
\* ShapeValues registered and finalize_compression_and_build called, then any
\* sequence of update and query.
MaxShapeN == 5
NumShapeValues == 2
ShapeValues == {10 * i : i \in 1..NumShapeValues}

ShapeInit ==
    /\ \E len \in 1..MaxShapeN : \E initial_nums \in [1..len -> ShapeValues] :
           /\ n = Len(initial_nums)
           /\ _initial_elements = initial_nums
           /\ current_nums = initial_nums
           /\ _all_possible_values = PySetOf(initial_nums) \cup ShapeValues
           /\ rank_to_val = sorted(ShapeValues)
           /\ val_to_rank = EnumerateDict(sorted(ShapeValues))
           /\ M = Len(sorted(ShapeValues))
           /\ seg_tree = Some(SegmentTree(initial_nums,
                                          EnumerateDict(sorted(ShapeValues)),
                                          Len(sorted(ShapeValues))))
           /\ last = Return("finalize_compression_and_build", None)
    /\ NoLRUCache
    /\ NoFenwickTree
    /\ NoUpdateInProgress

NextShape ==
    \/ IndexOnly /\ \E index \in Positions, new_value \in ShapeValues : update(index, new_value)
    \/ IndexOnly /\ \E L \in Positions, R \in Positions, K \in Ks : query(L, R, K)

SpecShape == ShapeInit /\ [][NextShape]_vars

\* the calls of _query_count_le for the range query_L..query_R: node index,
\* segment, and the branch each call takes
RECURSIVE _query_count_le_calls(_, _, _, _, _)
_query_count_le_calls(node_idx, seg_start, seg_end, query_L, query_R) ==
    IF query_R < seg_start \/ query_L > seg_end
    THEN {<<node_idx, seg_start, seg_end, "disjoint">>}
    ELSE IF query_L <= seg_start /\ seg_end <= query_R
         THEN {<<node_idx, seg_start, seg_end, "full">>}
         ELSE LET mid_idx == (seg_start + seg_end) \div 2
              IN  {<<node_idx, seg_start, seg_end, "partial">>}
                  \cup _query_count_le_calls(2 * node_idx, seg_start, mid_idx,
                                             query_L, query_R)
                  \cup _query_count_le_calls(2 * node_idx + 1, mid_idx + 1, seg_end,
                                             query_L, query_R)

\* the calls that take the full-overlap branch
FullOverlap(query_L, query_R) ==
    {c \in _query_count_le_calls(1, 0, n - 1, query_L, query_R) : c[4] = "full"}

\* the sum of the counters' answers for target_rank over a set of calls
RECURSIVE SumOfCounters(_, _, _)
SumOfCounters(st, calls, target_rank) ==
    IF calls = {} THEN 0
    ELSE LET c == CHOOSE x \in calls : TRUE
         IN  FenwickTree_query(st.tree[c[1]], target_rank)
             + SumOfCounters(st, calls \ {c}, target_rank)

\* the node indices of a sequence of visits
VisitedNodes(visits) == {visits[i][1] : i \in 1..Len(visits)}

\* the nodes whose counter differs between two node arrays
ChangedNodes(t1, t2) == {node_idx \in DOMAIN t1 : t1[node_idx] # t2[node_idx]}

\* the node array after the build loop has inserted positions i..n-1
BuiltFrom(i) ==
    SegmentTree_build_loop([k \in 0..(4 * n - 1) |-> FenwickTree(M)], n,
                           _initial_elements, val_to_rank, i)

\* C25: for every position p, one pass of _update_recursive visits exactly the
\* nodes whose range contains p, each once, root first, each visit a child
\* of the one before, ending at the leaf [p, p]; it adjusts the counter of
\* each of them once and no other; and the insert of position p at build
\* time changes the same set of nodes.
C25_UpdatePath ==
    \A p \in 0..(n - 1) :
        LET visits == _update_recursive_visits(1, 0, n - 1, p)
        IN  /\ {visits[i] : i \in 1..Len(visits)}
                   = {node \in NodesOf(1, 0, n - 1) : node[2] <= p /\ p <= node[3]}
            /\ Cardinality(VisitedNodes(visits)) = Len(visits)
            /\ visits[1] = <<1, 0, n - 1>>
            /\ visits[Len(visits)][2] = p /\ visits[Len(visits)][3] = p
            /\ \A i \in 1..(Len(visits) - 1) :
                   /\ visits[i + 1][1] \in {2 * visits[i][1], 2 * visits[i][1] + 1}
                   /\ visits[i][2] <= visits[i + 1][2]
                   /\ visits[i + 1][3] <= visits[i][3]
                   /\ visits[i + 1][3] - visits[i + 1][2] < visits[i][3] - visits[i][2]
            /\ \A rank \in 0..(M - 1) :
                   LET after == _update_recursive(seg_tree[1].tree, 1, 0, n - 1, p, rank, 1)
                   IN  \A node_idx \in DOMAIN seg_tree[1].tree :
                           after[node_idx] =
                               IF node_idx \in VisitedNodes(visits)
                               THEN FenwickTree_update(seg_tree[1].tree[node_idx], rank, 1)
                               ELSE seg_tree[1].tree[node_idx]
            /\ ChangedNodes(BuiltFrom(p + 1), BuiltFrom(p)) = VisitedNodes(visits)

\* an update has changed an element of a sequence of five elements
C25_Witness ==
    /\ n = 5
    /\ last = Return("update", None)
    /\ current_nums # _initial_elements
    /\ Len(_update_recursive_visits(1, 0, n - 1, 0)) = 4
    /\ Len(_update_recursive_visits(1, 0, n - 1, 4)) = 3

\* C26: for every 0 <= L <= R < N the calls of _query_count_le that take the
\* full-overlap branch have pairwise disjoint ranges whose union is L..R, the
\* count returned is the sum of their counters' answers and counts each
\* position of L..R with a rank <= target_rank once and no other position, and
\* a call on a disjoint (or fully covered) node makes no further call.
C26_QueryDecomposition ==
    \A L \in 0..(n - 1), R \in 0..(n - 1) :
        L <= R =>
            LET calls == _query_count_le_calls(1, 0, n - 1, L, R)
                full == FullOverlap(L, R)
            IN  /\ \A c \in full, d \in full :
                       c # d => (c[3] < d[2] \/ d[3] < c[2])
                /\ UNION {c[2]..c[3] : c \in full} = L..R
                /\ \A c \in calls :
                       c[4] # "partial" =>
                           \A d \in calls : d[1] \notin {2 * c[1], 2 * c[1] + 1}
                /\ \A target_rank \in 0..(M - 1) :
                       /\ _query_count_le(seg_tree[1], 1, 0, n - 1, L, R, target_rank)
                              = SumOfCounters(seg_tree[1], full, target_rank)
                       /\ _query_count_le(seg_tree[1], 1, 0, n - 1, L, R, target_rank)
                              = Cardinality({i \in L..R :
                                    val_to_rank[PyGet(current_nums, i)] <= target_rank})

\* a query on a sequence of five elements after an update; the range 0..4
\* is answered from the root alone, 0..3 from two nodes and 1..4 from three
C26_Witness ==
    /\ n = 5
    /\ last.op = "query"
    /\ last.kind = "ok"
    /\ current_nums # _initial_elements
    /\ Cardinality(FullOverlap(0, 4)) = 1
    /\ Cardinality(FullOverlap(0, 3)) = 2
    /\ Cardinality(FullOverlap(1, 4)) = 3

\* the tree has 4 * n counters, each of capacity M
FourNCounters(st) ==
    /\ DOMAIN st.tree = 0..(4 * n - 1)
    /\ \A node_idx \in DOMAIN st.tree :
           st.tree[node_idx].size = M /\ DOMAIN st.tree[node_idx].tree = 0..M

\* C28: the tree shape is fixed by N alone. The build allocates 4N counters
\* and no update or query creates or destroys one; every node index that
\* _update_recursive or _query_count_le visits lies in 1..4N-1; and the nodes
\* an update adjusts are those of the path computed from N and the position
\* alone, whatever values are stored, while a query adjusts none. (The state
\* before and the state after every update call are examined, and every
\* state has an update call made in it.)
C28_ShapeFixedByN ==
    [][ /\ last'.op = "query" => seg_tree' = seg_tree
        /\ last'.op = "update" =>
               /\ FourNCounters(seg_tree[1])
               /\ FourNCounters(seg_tree'[1])
               /\ \A p \in 0..(n - 1) :
                      VisitedNodes(_update_recursive_visits(1, 0, n - 1, p))
                          \subseteq 1..(4 * n - 1)
               /\ \A L \in 0..(n - 1), R \in 0..(n - 1) :
                      L <= R =>
                          \A c \in _query_count_le_calls(1, 0, n - 1, L, R) :
                              c[1] \in 1..(4 * n - 1)
               /\ \A index \in 0..(n - 1), new_value \in ShapeValues :
                      update(index, new_value) =>
                          ChangedNodes(seg_tree[1].tree, seg_tree'[1].tree) =
                              IF new_value = PyGet(current_nums, index) THEN {}
                              ELSE VisitedNodes(_update_recursive_visits(1, 0, n - 1,
                                                                         index))
      ]_vars

\* an update has changed the last element of a sequence of five elements, and
\* the deepest node of the tree has index 9 of 0..19
C28_Witness ==
    /\ n = 5
    /\ last = Return("update", None)
    /\ PyGet(current_nums, 4) # PyGet(_initial_elements, 4)
    /\ 9 \in VisitedNodes(_update_recursive_visits(1, 0, n - 1, 1))
    /\ DOMAIN seg_tree[1].tree = 0..19

\* ============================================== binary search, frame, rebuild
\* C27: on a consistent index (one finalize, then updates and queries) and
\* for arguments the wrapper accepts, the binary search of query_kth_smallest
\* ends with ans_rank the smallest rank r of 0..M-1 whose count of elements of
\* rank <= r in L..R is at least K; ans_rank is not left at -1, and query
\* returns rank_to_val[ans_rank].
C27_BinarySearchFindsLeastRank ==
    seg_tree # None =>
        \A L \in 0..(n - 1), R \in 0..(n - 1), K \in 1..n :
            (ValidRange(n, L, R) /\ ValidK(L, R, K)) =>
                LET ans_rank == query_kth_smallest_loop(seg_tree[1], L, R, K, 0,
                                                        seg_tree[1].M - 1, -1)
                IN  /\ ans_rank # -1
                    /\ ans_rank \in 0..(M - 1)
                    /\ CountLe(L, R, ans_rank) >= K
                    /\ \A r \in 0..(ans_rank - 1) : CountLe(L, R, r) < K
                    /\ query_outcome(n, seg_tree, rank_to_val, L, R, K)
                           = Return("query", Some(rank_to_val[ans_rank + 1]))

\* a query has returned the value of the highest of three ranks, which the
\* search reaches only by moving low_rank up twice
C27_Witness ==
    /\ seg_tree # None
    /\ M = 3
    /\ n = 2
    /\ last = Return("query", Some(rank_to_val[3]))
    /\ query_kth_smallest_loop(seg_tree[1], 0, 1, 2, 0, 2, -1) = 2
    /\ query_kth_smallest_loop(seg_tree[1], 0, 0, 1, 0, 2, -1) = 0

\* C29: query is read-only. Every call of query(L, R, K), whether it returns
\* or raises, leaves current_nums, val_to_rank, rank_to_val, M, the tree (every
\* node's Fenwick array) and all other fields unchanged, so that the same
\* query made again right after it has the same outcome.
C29_QueryReadOnly ==
    [][ last'.op = "query" =>
            /\ UNCHANGED index_state
            /\ \A L \in Positions, R \in Positions, K \in Ks :
                   query(L, R, K) =>
                       query_outcome(n', seg_tree', rank_to_val', L, R, K) = last' ]_vars

\* a query has returned a value on an index that had been updated
C29_Witness ==
    /\ last.op = "query"
    /\ last.kind = "ok"
    /\ seg_tree # None
    /\ n = 2
    /\ current_nums # _initial_elements
    /\ last.ret[1] \in PySetOf(current_nums) \ PySetOf(_initial_elements)

\* C30 (as stated): when finalize_compression_and_build is called again on an
\* index whose counters reflect current_nums, the counters of the rebuilt tree
\* still reflect current_nums and every valid query still returns the K-th
\* smallest of current_nums[L..R].
C30_Original ==
    [][ (/\ last'.op = "finalize_compression_and_build"
         /\ seg_tree # None
         /\ seg_tree[1] = SegmentTree(current_nums, val_to_rank, M)) =>
            /\ seg_tree'[1] = SegmentTree(current_nums', val_to_rank', M')
            /\ \A L \in 0..(n - 1), R \in 0..(n - 1), K \in 1..n :
                   (ValidRange(n, L, R) /\ ValidK(L, R, K)) =>
                       query_outcome(n', seg_tree', rank_to_val', L, R, K)
                           = Return("query", Some(KthSmallestOf(current_nums', L, R, K)))
      ]_vars

====
